---- MODULE Spec2Model ----
(***************************************************************************)
(* Model of src/extract_listings.py: the menu crawl scrape_menu (page      *)
(* fetch, panel loop, line segmenter, pagination).  Text is modelled as    *)
(* sequences of one-character strings so that the regular expressions,     *)
(* strip(), lower() and the price formatting are computed, not assumed.    *)
(***************************************************************************)
EXTENDS Integers, Sequences, FiniteSets, TLC

(* ---------------------------- bounds ---------------------------------- *)
NumPages == 3
MaxFetch == 4
MaxLines == 3

(* ------------------------- text primitives ---------------------------- *)
Digits == {"0", "1", "2", "3", "4", "5", "6", "7", "8", "9"}
Whitespace == {" ", "\t"}
UpperCase == <<"A","B","C","D","E","F","G","H","I","J","K","L","M",
               "N","O","P","Q","R","S","T","U","V","W","X","Y","Z">>
LowerCase == <<"a","b","c","d","e","f","g","h","i","j","k","l","m",
               "n","o","p","q","r","s","t","u","v","w","x","y","z">>

SetMin(S) == CHOOSE x \in S : \A y \in S : x <= y
SetMax(S) == CHOOSE x \in S : \A y \in S : x >= y

\* str.lower() on one character and on a string
Lower(c) ==
    IF \E k \in 1..26 : UpperCase[k] = c
    THEN LowerCase[CHOOSE k \in 1..26 : UpperCase[k] = c]
    ELSE c
LowerStr(s) == [k \in 1..Len(s) |-> Lower(s[k])]

\* str.strip(): drop leading and trailing whitespace
Strip(s) ==
    LET keep == {k \in 1..Len(s) : s[k] \notin Whitespace}
    IN  IF keep = {} THEN <<>> ELSE SubSeq(s, SetMin(keep), SetMax(keep))

\* re.IGNORECASE literal: character q of s is the (lower-case) letter c
CharIs(s, q, c) == q >= 1 /\ q <= Len(s) /\ Lower(s[q]) = c

\* \d+ from q, greedy: last index of the digit run that starts at q
DigitRunEnd(s, q) ==
    CHOOSE e \in q..Len(s) :
        /\ \A k \in q..e : s[k] \in Digits
        /\ (e = Len(s) \/ s[e + 1] \notin Digits)

\* \s* from q, greedy: first index at or after q that is not whitespace
SkipSpace(s, q) ==
    CHOOSE e \in q..(Len(s) + 1) :
        /\ \A k \in q..(e - 1) : s[k] \in Whitespace
        /\ (e = Len(s) + 1 \/ s[e] \notin Whitespace)

\* (L\.?E\.?) at q: index after the greedy match, 0 when it does not match
CurrencyEnd(s, q) ==
    IF ~CharIs(s, q, "l") THEN 0
    ELSE LET a == IF CharIs(s, q + 1, ".") THEN q + 2 ELSE q + 1
         IN  IF ~CharIs(s, a, "e") THEN 0
             ELSE IF CharIs(s, a + 1, ".") THEN a + 2 ELSE a + 1

\* (\d+)\s*(L\.?E\.?) matches at q.  Giving back digits or blanks cannot
\* help (the next character would be a digit or a blank, not L), so the
\* greedy run is the only candidate.
AmountAt(s, q) ==
    /\ q >= 1 /\ q <= Len(s)
    /\ s[q] \in Digits
    /\ CurrencyEnd(s, SkipSpace(s, DigitRunEnd(s, q) + 1)) # 0

\* Price\s*:\s* at q: index after the prefix, 0 when it does not match
PriceWord == <<"p", "r", "i", "c", "e">>
PrefixEnd(s, q) ==
    IF \A k \in 1..5 : CharIs(s, q + k - 1, PriceWord[k])
    THEN LET a == SkipSpace(s, q + 5)
         IN  IF CharIs(s, a, ":") THEN SkipSpace(s, a + 1) ELSE 0
    ELSE 0

\* price_pattern tried at start q: index where group 2 starts, 0 for no
\* match; the "Price:" alternative is tried before the empty one
PatternAt(s, q) ==
    LET a == PrefixEnd(s, q)
    IN  IF a # 0 /\ AmountAt(s, a) THEN a
        ELSE IF AmountAt(s, q) THEN q
        ELSE 0

\* price_pattern.search(line): leftmost start; 0 stands for None
price_match(s) ==
    LET starts == {q \in 1..Len(s) : PatternAt(s, q) # 0}
    IN  IF starts = {} THEN 0 ELSE PatternAt(s, SetMin(starts))

\* price_only_pattern.match(line): ^(\d+)\s*(L\.?E\.?)\.?$ ; 0 for None
price_only_match(s) ==
    IF ~AmountAt(s, 1) THEN 0
    ELSE LET e == CurrencyEnd(s, SkipSpace(s, DigitRunEnd(s, 1) + 1))
         IN  IF e = Len(s) + 1 \/ (e = Len(s) /\ s[e] = ".") THEN 1 ELSE 0

IsPriceLine(s) == price_match(s) # 0 \/ price_only_match(s) # 0

\* price = price_match.group(2) if price_match else price_only_match.group(1)
PriceDigits(s) ==
    LET d == IF price_match(s) # 0 THEN price_match(s) ELSE price_only_match(s)
    IN  SubSeq(s, d, DigitRunEnd(s, d))

\* line.lower() in ["price", "l.e", "le"]
NoiseWords == {<<"p","r","i","c","e">>, <<"l",".","e">>, <<"l","e">>}
IsNoise(s) == LowerStr(s) \in NoiseWords

CurrencySuffix == <<" ", "L", ".", "E">>

(* ----------------------------- dicts ---------------------------------- *)
EmptyItem == [k \in {} |-> <<>>]
Has(d, k) == k \in DOMAIN d
Get(d, k, default) == IF k \in DOMAIN d THEN d[k] ELSE default
Put(d, k, v) == [x \in (DOMAIN d) \cup {k} |-> IF x = k THEN v ELSE d[x]]
Truthy(d) == DOMAIN d # {}

(* --------------------------- input universe --------------------------- *)
\* lines of text as they appear in a panel body
Soup == <<"S","o","u","p">>
Salad == <<"S","a","l","a","d">>
Pcs12 == <<"1","2"," ","p","c","s">>
Legs3 == <<"3"," ","L","e","g","s">>
Price40 == <<"4","0"," ","L",".","E">>
Price85 == <<"P","r","i","c","e",":"," ","8","5"," ","L","E">>
Price7 == <<"7","l","e",".">>
NoiseLe == <<"l","e">>
NoisePrice == <<"P","r","i","c","e">>
RicePadded == <<" ","r","i","c","e"," ">>
Blank == <<" ">>
TitleSoups == <<" ","S","o","u","p","s"," ">>
TitleTea == <<"T","e","a">>
UnnamedCategory == <<"U","n","n","a","m","e","d"," ","C","a","t","e","g","o","r","y">>

LineSet == {Soup, Salad, Pcs12, Legs3, Price40, Price85, Price7, NoiseLe, NoisePrice}

SeqsUpTo(S, n) == UNION {[1..k -> S] : k \in 0..n}

URLs == 1..NumPages
StartUrl == 1
NoSoup == [none |-> TRUE]

\* a category panel: <div class="vc_tta-panel"> with an optional heading,
\* an optional title span inside it, and an optional body whose text,
\* split at newlines, is raw
Panel(heading, title_span, title, body, raw) ==
    [heading |-> heading, title_span |-> title_span, title |-> title,
     body |-> body, raw |-> raw]

\* the panels served at url u (three fixed layouts, distinct items each)
Content(u) ==
    CASE u % 3 = 1 ->
           << Panel(TRUE, TRUE, TitleSoups, TRUE, <<Soup, Blank, Price40>>) >>
      [] u % 3 = 2 ->
           << Panel(TRUE, TRUE, TitleTea, FALSE, <<>>),
              Panel(TRUE, FALSE, <<>>, TRUE, <<Salad, RicePadded, Price85, Soup>>),
              Panel(FALSE, FALSE, <<>>, TRUE, <<Price40, Soup, Price7>>) >>
      [] OTHER ->
           << Panel(TRUE, TRUE, TitleTea, TRUE, <<Salad, NoiseLe, Price7>>) >>

Statuses == {"ok", "bad", "err"}
\* the first <a class="next"> of a page, if any, and its href (0: no href)
NoLink == [anchor |-> FALSE, href |-> 0]
NextLinks == {NoLink} \cup {[anchor |-> TRUE, href |-> h] : h \in 0..NumPages}

Page(status, panels, next) == [status |-> status, panels |-> panels, next |-> next]

(* ------------------------------ state --------------------------------- *)
VARIABLES
    site,           \* the web site: url -> page served (environment)
    use_selenium,   \* scrape_menu's fetch strategy
    rows,           \* scrape_menu's result accumulator
    pc,             \* position of the crawl
    url,            \* argument of the innermost scrape_page call
    soup,           \* parsed page of the innermost scrape_page call
    p,              \* index of the panel the for loop is at (1-based)
    category_name,  \* title of the current panel
    lines,          \* trimmed non-empty lines of the current panel body
    i,              \* index of the while loop (0-based, as in the code)
    current_item,   \* pending item dict
    items,          \* items completed in the current panel
    sessions,       \* browser sessions created and not yet quit
    exc,            \* exception that left scrape_menu ("" while none has)
    fetchLog,       \* urls passed to get_soup, in call order
    robots,         \* the site's answer to the robots.txt request (environment)
    markup,         \* markup of the menu page fetched by main (environment)
    mpc,            \* position of main
    has_robots,     \* main's has_robots
    sitemaps,       \* main's sitemaps
    crawl_delays,   \* main's crawl_delays
    js_heavy,       \* main's js_heavy
    score           \* main's score (0 until it is computed)

mainVars == <<robots, markup, mpc, has_robots, sitemaps, crawl_delays, js_heavy, score>>

vars == <<site, use_selenium, rows, pc, url, soup, p, category_name, lines, i,
          current_item, items, sessions, exc, fetchLog, mainVars>>

segVars == <<category_name, lines, i, current_item, items>>

(* --------------------------- initial states --------------------------- *)
InitLocals ==
    /\ rows = <<>>
    /\ pc = "call"
    /\ url = StartUrl
    /\ soup = NoSoup
    /\ p = 0
    /\ category_name = <<>>
    /\ lines = <<>>
    /\ i = 0
    /\ current_item = EmptyItem
    /\ items = <<>>
    /\ sessions = 0
    /\ exc = ""
    /\ fetchLog = <<>>

RECURSIVE ReachFrom(_, _, _)
\* the urls a crawl can be asked to fetch when the next-links are nx
ReachFrom(nx, u, met) ==
    IF u \in met THEN met
    ELSE IF nx[u].anchor /\ nx[u].href # 0
         THEN ReachFrom(nx, nx[u].href, met \cup {u})
         ELSE met \cup {u}

\* crawl inputs: every assignment of a next-link to each url, and at most
\* one url whose fetch fails (f = 0: none), with either kind of failure.
\* A url no chain of next-links leads to is never fetched: it is given no
\* link and no failure, so that each crawl is explored once.
InitCrawl ==
    /\ \E f \in 0..NumPages : \E kind \in Statuses \ {"ok"} :
       \E nx \in [URLs -> NextLinks] :
          /\ f = 0 => kind = "bad"
          /\ \A u \in URLs \ ReachFrom(nx, StartUrl, {}) : nx[u] = NoLink /\ f # u
          /\ site = [u \in URLs |->
                       Page(IF u = f THEN kind ELSE "ok", Content(u), nx[u])]
    /\ use_selenium \in BOOLEAN
    /\ InitLocals

\* segmenter inputs: one page, one panel, every line sequence up to MaxLines
InitPanel ==
    /\ \E raw \in SeqsUpTo(LineSet, MaxLines) :
          site = [u \in URLs |->
                    Page("ok", << Panel(TRUE, TRUE, TitleTea, TRUE, raw) >>, NoLink)]
    /\ use_selenium = FALSE
    /\ InitLocals

\* scrape_menu taken on its own: main's variables stay as they are
\* before main has run
NoRobots == [outcome |-> "exc", text |-> <<>>]
NoMarkup == [scripts |-> 0, tags |-> {}]
MainIdle ==
    /\ robots = NoRobots
    /\ markup = NoMarkup
    /\ has_robots = FALSE
    /\ sitemaps = <<>>
    /\ crawl_delays = <<>>
    /\ js_heavy = FALSE
    /\ score = 0

Init == (InitCrawl \/ InitPanel) /\ MainIdle /\ mpc = "scrape"

(* --------------------------- the segmenter ---------------------------- *)
Seg(cur, its) == [current_item |-> cur, items |-> its]

\* variant: the price is attached and the item emitted without the
\* `if current_item` test
PriceBranchNoGuard(cur, its, line) ==
    Seg(EmptyItem, Append(its, Put(cur, "price", PriceDigits(line) \o CurrencySuffix)))

\* variant: an orphan price is kept in the accumulator
PriceBranchKeepsOrphan(cur, its, line) ==
    IF Truthy(cur)
    THEN Seg(EmptyItem, Append(its, Put(cur, "price", PriceDigits(line) \o CurrencySuffix)))
    ELSE Seg(Put(cur, "price", PriceDigits(line) \o CurrencySuffix), its)

\* lines 171-178: the line matched a price pattern
PriceBranch(cur, its, line) ==
    LET price == PriceDigits(line)
    IN  IF Truthy(cur)
        THEN Seg(EmptyItem, Append(its, Put(cur, "price", price \o CurrencySuffix)))
        ELSE Seg(cur, its)

\* line 180: 'name' in current_item and 'price' not in current_item
Continues(cur) == Has(cur, "name") /\ ~Has(cur, "price")

\* variant: a second name line replaces the pending item
DescriptionBranchOverwrite(cur, its, line) ==
    Seg(Put(EmptyItem, "name", line), its)

\* variant: fragments are joined without the separating space
DescriptionBranchNoSep(cur, its, line) ==
    Seg(Put(cur, "description", Get(cur, "description", <<>>) \o line), its)

\* lines 180-183: the line continues the pending item's description
DescriptionBranch(cur, its, line) ==
    Seg(Put(cur, "description", Get(cur, "description", <<>>) \o <<" ">> \o line), its)

\* variant: a noise token starts an item like any other line
NameBranchNoNoise(cur, its, line) ==
    Seg(Put(EmptyItem, "name", line), its)

\* lines 185-187: the line starts a new item unless it is a noise token
NameBranch(cur, its, line) ==
    IF ~IsNoise(line) THEN Seg(Put(EmptyItem, "name", line), its) ELSE Seg(cur, its)

\* lines 167-187: one iteration of the while loop
SegStep(cur, its, line) ==
    IF IsPriceLine(line) THEN PriceBranch(cur, its, line)
    ELSE IF Continues(cur) THEN DescriptionBranch(cur, its, line)
    ELSE NameBranch(cur, its, line)

\* variant: a pending item is emitted at the end of the panel
EndFlushEmitsPending(cur, its) ==
    IF Truthy(cur) THEN Append(its, cur) ELSE its

\* lines 189-190: after the loop
EndFlush(cur, its) ==
    IF Truthy(cur) /\ Has(cur, "price") THEN Append(its, cur) ELSE its

\* lines 192-198: the rows appended for one panel
PanelRows(category, its) ==
    [k \in 1..Len(its) |->
        << category, Get(its[k], "name", <<>>), Get(its[k], "description", <<>>),
           Get(its[k], "price", <<>>) >>]

\* lines 150-152: category_name of a panel
CategoryName(panel) ==
    LET title_span == panel.heading /\ panel.title_span
    IN  IF title_span THEN Strip(panel.title) ELSE UnnamedCategory

\* line 158: trimmed, non-empty lines of the body text
IsNonBlank(s) == Strip(s) # <<>>
BodyLines(panel) ==
    LET kept == SelectSeq(panel.raw, IsNonBlank)
    IN  [k \in 1..Len(kept) |-> Strip(kept[k])]

\* lines 201-202: destination of the pagination link, 0 when none is followed
NextPageUrl(page) == IF page.next.anchor /\ page.next.href # 0 THEN page.next.href ELSE 0

(* ------------------------------ actions ------------------------------- *)
crawlFrame == <<site, use_selenium, mainVars>>

\* variant: a failed plain-HTTP fetch is not caught and leaves scrape_menu
GetSoupHttpRaises ==
    /\ pc = "call" /\ ~use_selenium
    /\ Len(fetchLog) < MaxFetch
    /\ fetchLog' = Append(fetchLog, url)
    /\ IF site[url].status = "ok"
       THEN /\ soup' = site[url]
            /\ pc' = "panels"
            /\ p' = 1
            /\ exc' = exc
       ELSE /\ soup' = NoSoup
            /\ pc' = "raised"
            /\ p' = p
            /\ exc' = "navigation"
    /\ UNCHANGED <<crawlFrame, rows, url, segVars, sessions>>

\* lines 130-144: get_soup over plain HTTP, and scrape_page's early return
GetSoupHttp ==
    /\ pc = "call" /\ ~use_selenium
    /\ Len(fetchLog) < MaxFetch
    /\ fetchLog' = Append(fetchLog, url)
    /\ IF site[url].status = "ok"
       THEN /\ soup' = site[url]
            /\ pc' = "panels"
            /\ p' = 1
       ELSE /\ soup' = NoSoup
            /\ pc' = "done"
            /\ p' = p
    /\ UNCHANGED <<crawlFrame, exc, rows, url, segVars, sessions>>

\* lines 121-124: get_soup with Selenium creates a browser session, or the
\* driver cannot be started and the exception leaves scrape_menu
CreateDriver ==
    /\ pc = "call" /\ use_selenium
    /\ Len(fetchLog) < MaxFetch
    /\ fetchLog' = Append(fetchLog, url)
    /\ \E started \in BOOLEAN :
          IF started
          THEN sessions' = sessions + 1 /\ pc' = "navigate" /\ exc' = exc
          ELSE sessions' = sessions /\ pc' = "raised" /\ exc' = "driver_start"
    /\ UNCHANGED <<crawlFrame, rows, url, soup, p, segVars>>

\* line 125: driver.get(url); a transport error raises WebDriverException,
\* which nothing catches; any HTTP status loads a document
DriverGet ==
    /\ pc = "navigate"
    /\ IF site[url].status = "err"
       THEN pc' = "raised" /\ exc' = "navigation"
       ELSE pc' = "capture" /\ exc' = exc
    /\ UNCHANGED <<crawlFrame, rows, url, soup, p, segVars, sessions, fetchLog>>

\* lines 126-129: page_source, driver.quit(), return the parsed document
PageSource ==
    /\ pc = "capture"
    /\ sessions' = sessions - 1
    /\ soup' = site[url]
    /\ pc' = "panels"
    /\ p' = 1
    /\ UNCHANGED <<crawlFrame, exc, rows, url, segVars, fetchLog>>

\* variant: a panel without a body ends the loop over the panels
PanelSkipBreaks ==
    /\ pc = "panels" /\ p <= Len(soup.panels)
    /\ ~soup.panels[p].body
    /\ category_name' = CategoryName(soup.panels[p])
    /\ p' = Len(soup.panels) + 1
    /\ UNCHANGED <<crawlFrame, exc, rows, pc, url, soup, lines, i, current_item, items,
                   sessions, fetchLog>>

\* lines 149-156: a panel without a body is skipped
PanelSkip ==
    /\ pc = "panels" /\ p <= Len(soup.panels)
    /\ ~soup.panels[p].body
    /\ category_name' = CategoryName(soup.panels[p])
    /\ p' = p + 1
    /\ UNCHANGED <<crawlFrame, exc, rows, pc, url, soup, lines, i, current_item, items,
                   sessions, fetchLog>>

\* variant: the pending item of the previous panel is kept
PanelStartKeepsPending ==
    /\ pc = "panels" /\ p <= Len(soup.panels)
    /\ soup.panels[p].body
    /\ category_name' = CategoryName(soup.panels[p])
    /\ lines' = BodyLines(soup.panels[p])
    /\ items' = <<>>
    /\ current_item' = current_item
    /\ i' = 0
    /\ pc' = "lines"
    /\ UNCHANGED <<crawlFrame, exc, rows, url, soup, p, sessions, fetchLog>>

\* lines 149-165: a panel with a body starts a segmentation
PanelStart ==
    /\ pc = "panels" /\ p <= Len(soup.panels)
    /\ soup.panels[p].body
    /\ category_name' = CategoryName(soup.panels[p])
    /\ lines' = BodyLines(soup.panels[p])
    /\ items' = <<>>
    /\ current_item' = EmptyItem
    /\ i' = 0
    /\ pc' = "lines"
    /\ UNCHANGED <<crawlFrame, exc, rows, url, soup, p, sessions, fetchLog>>

segFrame == <<crawlFrame, exc, rows, pc, url, soup, p, category_name, lines, sessions, fetchLog>>

\* lines 166-178: loop iteration on a price line
LinePrice ==
    /\ pc = "lines" /\ i < Len(lines)
    /\ IsPriceLine(lines[i + 1])
    /\ current_item' = PriceBranch(current_item, items, lines[i + 1]).current_item
    /\ items' = PriceBranch(current_item, items, lines[i + 1]).items
    /\ i' = i + 1
    /\ UNCHANGED segFrame

\* lines 166-183: loop iteration on a line that continues the pending item
LineDescription ==
    /\ pc = "lines" /\ i < Len(lines)
    /\ ~IsPriceLine(lines[i + 1])
    /\ Continues(current_item)
    /\ current_item' = DescriptionBranch(current_item, items, lines[i + 1]).current_item
    /\ items' = DescriptionBranch(current_item, items, lines[i + 1]).items
    /\ i' = i + 1
    /\ UNCHANGED segFrame

\* lines 166-187: loop iteration on any other line
LineName ==
    /\ pc = "lines" /\ i < Len(lines)
    /\ ~IsPriceLine(lines[i + 1])
    /\ ~Continues(current_item)
    /\ current_item' = NameBranch(current_item, items, lines[i + 1]).current_item
    /\ items' = NameBranch(current_item, items, lines[i + 1]).items
    /\ i' = i + 1
    /\ UNCHANGED segFrame

\* variant: the panel's rows are put in front of the accumulator
PanelEndPrepend ==
    /\ pc = "lines" /\ i >= Len(lines)
    /\ items' = EndFlush(current_item, items)
    /\ rows' = PanelRows(category_name, items') \o rows
    /\ p' = p + 1
    /\ pc' = "panels"
    /\ UNCHANGED <<crawlFrame, exc, url, soup, category_name, lines, i, current_item,
                   sessions, fetchLog>>

\* lines 166, 189-198: the loop ends, the panel's items are appended to rows
PanelEnd ==
    /\ pc = "lines" /\ i >= Len(lines)
    /\ items' = EndFlush(current_item, items)
    /\ rows' = rows \o PanelRows(category_name, items')
    /\ p' = p + 1
    /\ pc' = "panels"
    /\ UNCHANGED <<crawlFrame, exc, url, soup, category_name, lines, i, current_item,
                   sessions, fetchLog>>

\* variant: the next-link is followed before the panels are processed
FollowNextEarly ==
    /\ pc = "panels"
    /\ NextPageUrl(soup) # 0
    /\ url' = NextPageUrl(soup)
    /\ pc' = "call"
    /\ UNCHANGED <<crawlFrame, exc, rows, soup, p, segVars, sessions, fetchLog>>

\* variant: a next-link to a url already fetched is not followed
FollowNextVisited ==
    /\ pc = "panels" /\ p > Len(soup.panels)
    /\ NextPageUrl(soup) # 0
    /\ IF \E k \in 1..Len(fetchLog) : fetchLog[k] = NextPageUrl(soup)
       THEN url' = url /\ pc' = "done"
       ELSE url' = NextPageUrl(soup) /\ pc' = "call"
    /\ UNCHANGED <<crawlFrame, exc, rows, soup, p, segVars, sessions, fetchLog>>

\* lines 200-205: after the last panel, recurse into the next page
FollowNext ==
    /\ pc = "panels" /\ p > Len(soup.panels)
    /\ NextPageUrl(soup) # 0
    /\ url' = NextPageUrl(soup)
    /\ pc' = "call"
    /\ UNCHANGED <<crawlFrame, exc, rows, soup, p, segVars, sessions, fetchLog>>

\* lines 200-209: no next link to follow: every scrape_page call returns
\* and scrape_menu returns rows
Return ==
    /\ pc = "panels" /\ p > Len(soup.panels)
    /\ NextPageUrl(soup) = 0
    /\ pc' = "done"
    /\ UNCHANGED <<crawlFrame, exc, rows, url, soup, p, segVars, sessions, fetchLog>>

Next ==
    \/ GetSoupHttp \/ CreateDriver \/ DriverGet \/ PageSource
    \/ PanelSkip \/ PanelStart
    \/ LinePrice \/ LineDescription \/ LineName \/ PanelEnd
    \/ FollowNext \/ Return

Spec == Init /\ [][Next]_vars

TypeOK ==
    /\ pc \in {"idle", "call", "navigate", "capture", "panels", "lines", "done", "raised"}
    /\ mpc \in {"robots", "apis", "fetch", "js", "scrape", "score", "end", "aborted"}
    /\ url \in URLs
    /\ sessions \in 0..MaxFetch
    /\ exc \in {"", "driver_start", "navigation"}
    /\ (pc = "raised") = (exc # "")
    /\ i \in 0..Len(lines)
    /\ DOMAIN current_item \subseteq {"name", "description", "price"}

(* -------------------------------- main -------------------------------- *)
MaxRobotsLines == 2
MaxScripts == 12
JsScriptLimit == 10

\* variant: the sitemap contribution is given for crawl delays as well
calculate_crawlability_score_swapped(robots_found, delays, maps, heavy) ==
    LET s1 == IF robots_found THEN 25 ELSE 0
        s2 == IF delays # <<>> THEN s1 + 30 ELSE s1
        s3 == IF maps # <<>> THEN s2 + 15 ELSE s2
    IN  IF ~heavy THEN s3 + 30 ELSE s3

\* lines 212-229
calculate_crawlability_score(robots_found, delays, maps, heavy) ==
    LET s1 == IF robots_found THEN 25 ELSE 0
        s2 == IF delays # <<>> THEN s1 + 15 ELSE s1
        s3 == IF maps # <<>> THEN s2 + 30 ELSE s2
    IN  IF ~heavy THEN s3 + 30 ELSE s3

mainFrame == <<site, use_selenium, rows, pc, url, soup, p, segVars, sessions, exc,
               fetchLog, robots, markup>>

\* lines 297-301: main computes the score from the facts gathered
Score ==
    /\ mpc = "score"
    /\ score' = calculate_crawlability_score(has_robots, crawl_delays, sitemaps, js_heavy)
    /\ mpc' = "end"
    /\ UNCHANGED <<mainFrame, has_robots, sitemaps, crawl_delays, js_heavy>>

\* values of Sitemap and Crawl-delay directives
FactValues == {<<"s">>, <<>>}

\* the scorer on its own: every combination of its four arguments
InitScore ==
    /\ site = [u \in URLs |-> Page("ok", Content(u), NoLink)]
    /\ use_selenium = FALSE
    /\ InitLocals
    /\ robots = NoRobots
    /\ markup = NoMarkup
    /\ has_robots \in BOOLEAN
    /\ crawl_delays \in SeqsUpTo(FactValues, MaxRobotsLines)
    /\ sitemaps \in SeqsUpTo(FactValues, MaxRobotsLines)
    /\ js_heavy \in BOOLEAN
    /\ score = 0
    /\ mpc = "score"

SpecScore == InitScore /\ [][Score]_vars

\* tags looked for at line 85, and the tags a page may contain beside
\* <script>
ContentTags == {"div", "p", "span", "table"}
PageTags == ContentTags \cup {"h1"}

\* variant: ten script elements already count as JavaScript-heavy
is_javascript_heavy_ge(html_content) ==
    IF html_content.scripts >= JsScriptLimit THEN TRUE
    ELSE IF html_content.tags \cap ContentTags = {} THEN TRUE
    ELSE FALSE

\* lines 79-88; html_content is the number of <script> elements and the
\* set of other tag names present
is_javascript_heavy(html_content) ==
    IF html_content.scripts > JsScriptLimit THEN TRUE
    ELSE IF html_content.tags \cap ContentTags = {} THEN TRUE
    ELSE FALSE

\* line 263: main asks whether the menu page is JavaScript-heavy
CheckJs ==
    /\ mpc = "js"
    /\ js_heavy' = is_javascript_heavy(markup)
    /\ mpc' = "scrape"
    /\ UNCHANGED <<mainFrame, has_robots, sitemaps, crawl_delays, score>>

\* the detector on its own: every script count up to MaxScripts with every
\* set of tags
InitJs ==
    /\ site = [u \in URLs |-> Page("ok", Content(u), NoLink)]
    /\ use_selenium = FALSE
    /\ InitLocals
    /\ robots = NoRobots
    /\ markup \in [scripts : 0..MaxScripts, tags : SUBSET PageTags]
    /\ has_robots = FALSE
    /\ crawl_delays = <<>>
    /\ sitemaps = <<>>
    /\ js_heavy = FALSE
    /\ score = 0
    /\ mpc = "js"

SpecJs == InitJs /\ [][CheckJs]_vars

\* lines of a robots.txt
SitemapLine == <<"S","i","t","e","m","a","p",":"," ","s">>
DelayLine == <<"c","r","a","w","l","-","d","e","l","a","y",":"," ","5">>
DelayNoColon == <<"C","r","a","w","l","-","D","e","l","a","y"," ","5">>
AgentLine == <<"U","s","e","r","-","a","g","e","n","t",":"," ","*">>
IndentedSitemap == <<" ","s","i","t","e","m","a","p",":"," ","s">>
RobotsLineSet == {SitemapLine, DelayLine, DelayNoColon, AgentLine, IndentedSitemap}

\* str.startswith
StartsWith(s, prefix) ==
    Len(s) >= Len(prefix) /\ SubSeq(s, 1, Len(prefix)) = prefix

HasColon(s) == \E k \in 1..Len(s) : s[k] = ":"
\* line.split(':', 1)[1].strip(), for a line with a colon
AfterColon(s) ==
    LET first == SetMin({k \in 1..Len(s) : s[k] = ":"})
    IN  Strip(SubSeq(s, first + 1, Len(s)))

IsSitemapLine(s) == StartsWith(LowerStr(s), <<"s","i","t","e","m","a","p",":">>)
IsDelayLine(s) == StartsWith(LowerStr(s), <<"c","r","a","w","l","-","d","e","l","a","y">>)

\* line 59 and line 67: the list comprehensions
SitemapsOf(text) ==
    LET sel == SelectSeq(text, IsSitemapLine)
    IN  [k \in 1..Len(sel) |-> AfterColon(sel[k])]
CrawlDelaysOf(text) ==
    LET sel == SelectSeq(text, IsDelayLine)
    IN  [k \in 1..Len(sel) |-> AfterColon(sel[k])]
\* line 67 raises IndexError on a crawl-delay line without a colon
DelayRaises(text) ==
    \E k \in 1..Len(text) : IsDelayLine(text[k]) /\ ~HasColon(text[k])

scoreFrame == <<site, use_selenium, rows, pc, url, soup, p, segVars, sessions, exc,
                fetchLog, robots, markup, js_heavy, score>>

\* variant: has_robots is true however the request for robots.txt ended
AnalyzeRobotsAlwaysFound ==
    /\ mpc = "robots"
    /\ IF robots.outcome # "ok"
       THEN /\ sitemaps' = <<>> /\ crawl_delays' = <<>> /\ has_robots' = TRUE
            /\ mpc' = "apis"
       ELSE \E read_ok \in BOOLEAN :
              IF read_ok /\ ~DelayRaises(robots.text)
              THEN /\ sitemaps' = SitemapsOf(robots.text)
                   /\ crawl_delays' = CrawlDelaysOf(robots.text)
                   /\ has_robots' = TRUE
                   /\ mpc' = "apis"
              ELSE /\ mpc' = "aborted"
                   /\ UNCHANGED <<sitemaps, crawl_delays, has_robots>>
    /\ UNCHANGED scoreFrame

\* lines 34-76 and 256: analyze_robots_txt and the unpacking of its result.
\* A request that raises or answers another status than 200 gives
\* ([], [], False). After a 200, rp.read() (line 52) fetches the file again
\* and may raise, and line 67 raises on a crawl-delay line without a colon:
\* either exception leaves main.
AnalyzeRobots ==
    /\ mpc = "robots"
    /\ IF robots.outcome # "ok"
       THEN /\ sitemaps' = <<>> /\ crawl_delays' = <<>> /\ has_robots' = FALSE
            /\ mpc' = "apis"
       ELSE \E read_ok \in BOOLEAN :
              IF read_ok /\ ~DelayRaises(robots.text)
              THEN /\ sitemaps' = SitemapsOf(robots.text)
                   /\ crawl_delays' = CrawlDelaysOf(robots.text)
                   /\ has_robots' = TRUE
                   /\ mpc' = "apis"
              ELSE /\ mpc' = "aborted"
                   /\ UNCHANGED <<sitemaps, crawl_delays, has_robots>>
    /\ UNCHANGED scoreFrame

\* lines 89-112 and 259: check_open_apis_and_feeds catches every exception
\* and assigns nothing main reads
CheckOpenApis ==
    /\ mpc = "apis"
    /\ mpc' = "fetch"
    /\ UNCHANGED <<mainFrame, has_robots, sitemaps, crawl_delays, js_heavy, score>>

\* line 262: session.get(menu_url) outside any try; a request that raises
\* leaves main
FetchMenu ==
    /\ mpc = "fetch"
    /\ \E fetched \in BOOLEAN : mpc' = IF fetched THEN "js" ELSE "aborted"
    /\ UNCHANGED <<mainFrame, has_robots, sitemaps, crawl_delays, js_heavy, score>>

\* line 266: scrape_menu is called with use_selenium = js_heavy
CallScrapeMenu ==
    /\ mpc = "scrape" /\ pc = "idle"
    /\ use_selenium' = js_heavy
    /\ pc' = "call"
    /\ UNCHANGED <<site, rows, url, soup, p, segVars, sessions, exc, fetchLog, mainVars>>

\* lines 266-295: scrape_menu has returned; the table and the summaries
\* are displayed
Display ==
    /\ mpc = "scrape" /\ pc = "done"
    /\ mpc' = "score"
    /\ UNCHANGED <<mainFrame, has_robots, sitemaps, crawl_delays, js_heavy, score>>

\* line 266: an exception that left scrape_menu leaves main
MainAborts ==
    /\ mpc = "scrape" /\ pc = "raised"
    /\ mpc' = "aborted"
    /\ UNCHANGED <<mainFrame, has_robots, sitemaps, crawl_delays, js_heavy, score>>

\* answers to the request for robots.txt: an exception, a status other
\* than 200, or 200 with up to MaxRobotsLines lines
RobotsAnswers ==
    {[outcome |-> o, text |-> <<>>] : o \in {"exc", "status"}}
    \cup {[outcome |-> "ok", text |-> t] : t \in SeqsUpTo(RobotsLineSet, MaxRobotsLines)}

\* markup of the menu page: a script count on either side of the limit,
\* with or without a content tag
MenuMarkups == [scripts : {JsScriptLimit, JsScriptLimit + 1}, tags : {{}, {"div"}}]

\* main from its first line: the menu is page 1, which links to page 2;
\* page 2 may be out of reach (f = 2)
InitMain ==
    /\ \E f \in {0, 2} :
          site = [u \in URLs |->
                    Page(IF u = f THEN "err" ELSE "ok", Content(u),
                         IF u = 1 THEN [anchor |-> TRUE, href |-> 2] ELSE NoLink)]
    /\ use_selenium = FALSE
    /\ rows = <<>>
    /\ pc = "idle"
    /\ url = StartUrl
    /\ soup = NoSoup
    /\ p = 0
    /\ category_name = <<>>
    /\ lines = <<>>
    /\ i = 0
    /\ current_item = EmptyItem
    /\ items = <<>>
    /\ sessions = 0
    /\ exc = ""
    /\ fetchLog = <<>>
    /\ robots \in RobotsAnswers
    /\ markup \in MenuMarkups
    /\ has_robots = FALSE
    /\ sitemaps = <<>>
    /\ crawl_delays = <<>>
    /\ js_heavy = FALSE
    /\ score = 0
    /\ mpc = "robots"

NextMain ==
    \/ AnalyzeRobots \/ CheckOpenApis \/ FetchMenu \/ CheckJs \/ CallScrapeMenu
    \/ GetSoupHttp \/ CreateDriver \/ DriverGet \/ PageSource
    \/ PanelSkip \/ PanelStart
    \/ LinePrice \/ LineDescription \/ LineName \/ PanelEnd
    \/ FollowNext \/ Return
    \/ Display \/ MainAborts \/ Score

SpecMain == InitMain /\ [][NextMain]_vars

(* ------------------------- claims: segmenter -------------------------- *)
IsFragment(s) == ~IsPriceLine(s) /\ ~IsNoise(s)
IsPriceText(t) ==
    /\ Len(t) > Len(CurrencySuffix)
    /\ SubSeq(t, Len(t) - 3, Len(t)) = CurrencySuffix
    /\ \A k \in 1..(Len(t) - 4) : t[k] \in Digits

\* the while loop over `lines` has finished: items is the panel's result
SegDone == pc # "lines" \/ i = Len(lines)

\* C1: every item emitted by the segmenter, and every row appended to the
\* crawl result, has a non-empty name and a price of the form "<digits> L.E"
C1_EmittedComplete ==
    /\ \A k \in 1..Len(items) :
          /\ Has(items[k], "name") /\ items[k].name # <<>>
          /\ Has(items[k], "price") /\ IsPriceText(items[k].price)
    /\ \A k \in 1..Len(rows) :
          rows[k][2] # <<>> /\ IsPriceText(rows[k][4])

\* C1 witness: a panel [price, name, price] ran to the end; the orphan price
\* was dropped and one complete row was appended
C1_Witness ==
    /\ pc = "done" /\ Len(lines) = 3
    /\ IsPriceLine(lines[1]) /\ IsFragment(lines[2]) /\ IsPriceLine(lines[3])
    /\ Len(rows) = 1 /\ rows[1][2] = lines[2]

TwoNamesThenPrice(ls) ==
    /\ Len(ls) = 3
    /\ IsFragment(ls[1]) /\ IsFragment(ls[2]) /\ IsPriceLine(ls[3])

\* C2 as stated: two consecutive name lines followed by a price line yield
\* exactly one item, named after the second name line
C2_SecondNameOverwrites ==
    (SegDone /\ TwoNamesThenPrice(lines)) =>
        (Len(items) = 1 /\ items[1].name = lines[2])

\* C2 amended: two consecutive name lines followed by a price line yield
\* exactly one item, named after the first name line; the second name line
\* becomes its description, preceded by one space
C2_FirstNameKept ==
    (SegDone /\ TwoNamesThenPrice(lines)) =>
        /\ Len(items) = 1
        /\ items[1].name = lines[1]
        /\ Get(items[1], "description", <<>>) = <<" ">> \o lines[2]
        /\ pc = "done" => (Len(rows) = 1 /\ rows[1][2] = lines[1])

\* C2 witness: ["Soup", "Salad", "40 L.E"] was segmented and returned
C2_Witness ==
    /\ pc = "done" /\ lines = <<Soup, Salad, Price40>>
    /\ rows = << <<TitleTea, Soup, <<" ">> \o Salad, <<"4","0"," ","L",".","E">> >> >>

\* C3 as stated: a step of the segmenter on a noise token leaves the pending
\* item and the emitted items as they were, in every accumulator state
C3_NoiseIgnored ==
    [][(pc = "lines" /\ i < Len(lines) /\ IsNoise(lines[i + 1])
            /\ ~IsPriceLine(lines[i + 1]))
        => (current_item' = current_item /\ items' = items /\ rows' = rows)]_vars

RECURSIVE JoinDescription(_, _, _)
\* " d_lo ... d_hi": each line of ls[lo..hi] preceded by one space
JoinDescription(ls, lo, hi) ==
    IF lo > hi THEN <<>>
    ELSE JoinDescription(ls, lo, hi - 1) \o <<" ">> \o ls[hi]

NameDescPrice(ls) ==
    /\ Len(ls) >= 2
    /\ IsFragment(ls[1])
    /\ \A k \in 2..(Len(ls) - 1) : ~IsPriceLine(ls[k])
    /\ IsPriceLine(ls[Len(ls)])

C5_OrphanPriceDropped ==
    /\ []((SegDone /\ Len(lines) = 1 /\ IsPriceLine(lines[1])) => items = <<>>)
    /\ [][(pc = "lines" /\ i < Len(lines) /\ IsPriceLine(lines[i + 1])
               /\ ~Has(current_item, "name"))
           => (items' = items /\ rows' = rows /\ current_item' = EmptyItem
               /\ i' = i + 1)]_vars
    /\ [][(pc = "lines" /\ i >= 1 /\ i < Len(lines) /\ IsPriceLine(lines[i])
               /\ IsFragment(lines[i + 1]))
           => current_item' = Put(EmptyItem, "name", lines[i + 1])]_vars

\* C5 witness: in [price, price, name] both orphan prices were consumed and
\* the name line started a fresh pending item
C5_Witness ==
    /\ pc = "lines" /\ i = 3 /\ Len(lines) = 3
    /\ IsPriceLine(lines[1]) /\ IsPriceLine(lines[2]) /\ IsFragment(lines[3])
    /\ items = <<>> /\ current_item = Put(EmptyItem, "name", lines[3])

(* --------------------------- claims: crawl ---------------------------- *)
RECURSIVE SegmentFrom(_, _, _, _)
\* lines 165-190 as a function: the items of one panel's lines
SegmentFrom(ls, k, cur, its) ==
    IF k > Len(ls) THEN EndFlush(cur, its)
    ELSE LET r == SegStep(cur, its, ls[k])
         IN  SegmentFrom(ls, k + 1, r.current_item, r.items)
Segment(ls) == SegmentFrom(ls, 1, EmptyItem, <<>>)

RECURSIVE PageRowsFrom(_, _)
\* lines 149-198 as a function: the rows of panels k.. of a page
PageRowsFrom(page, k) ==
    IF k > Len(page.panels) THEN <<>>
    ELSE (IF page.panels[k].body
          THEN PanelRows(CategoryName(page.panels[k]), Segment(BodyLines(page.panels[k])))
          ELSE <<>>) \o PageRowsFrom(page, k + 1)
PageRows(page) == PageRowsFrom(page, 1)

RECURSIVE RowsOfPages(_)
\* the rows of the pages at the urls us, concatenated in the order of us
RowsOfPages(us) ==
    IF us = <<>> THEN <<>> ELSE PageRows(site[Head(us)]) \o RowsOfPages(Tail(us))

RECURSIVE Walk(_, _)
\* the urls met by following next-links from u; 0 marks a link back to a
\* url already met
Walk(u, met) ==
    IF u \in met THEN <<0>>
    ELSE IF NextPageUrl(site[u]) = 0 THEN <<u>>
    ELSE <<u>> \o Walk(NextPageUrl(site[u]), met \cup {u})

Chain == Walk(StartUrl, {})
HasCycle == \E k \in 1..Len(Chain) : Chain[k] = 0
AllFetchesSucceed == \A k \in 1..Len(Chain) : Chain[k] # 0 => site[Chain[k]].status = "ok"
IsChain == ~HasCycle /\ AllFetchesSucceed
IsPrefix(a, b) == Len(a) <= Len(b) /\ SubSeq(b, 1, Len(a)) = a
Front(a) == SubSeq(a, 1, Len(a) - 1)

Row(category, name, description, price) == <<category, name, description, price>>
RowsPage1 == << Row(<<"S","o","u","p","s">>, Soup, <<>>, <<"4","0"," ","L",".","E">>) >>
RowsPage2 == << Row(UnnamedCategory, Salad, <<" ","r","i","c","e">>, <<"8","5"," ","L",".","E">>),
                Row(UnnamedCategory, Soup, <<>>, <<"7"," ","L",".","E">>) >>
RowsPage3 == << Row(TitleTea, Salad, <<" ","l","e">>, <<"7"," ","L",".","E">>) >>

\* C6: on a chain of N pages whose fetches all succeed, the pages are fetched
\* once each in chain order and the result is the concatenation of the
\* pages' rows in that order
C6_ChainCrawl ==
    IsChain =>
        /\ IsPrefix(fetchLog, Chain)
        /\ pc = "done" => (fetchLog = Chain /\ rows = RowsOfPages(Chain))

\* C6 witness: the chain 1 -> 2 -> 3 was crawled to the end
C6_Witness ==
    /\ IsChain /\ pc = "done"
    /\ fetchLog = <<1, 2, 3>>
    /\ rows = RowsPage1 \o RowsPage2 \o RowsPage3

C8_HttpFailSoft ==
    /\ [](~use_selenium => pc # "raised")
    /\ []((~use_selenium /\ pc = "done" /\ soup = NoSoup /\ Len(fetchLog) > 1) =>
            /\ rows = RowsOfPages(Front(fetchLog))
            /\ \A k \in 1..(Len(fetchLog) - 1) :
                  /\ fetchLog[k] # fetchLog[Len(fetchLog)]
                  /\ site[fetchLog[k]].status = "ok")
    /\ [][(~use_selenium /\ pc = "call" /\ site[url].status # "ok")
           => (pc' = "done" /\ rows' = rows /\ fetchLog' = Append(fetchLog, url))]_vars
    /\ [][pc # "done"]_vars

\* C8 witness: plain HTTP, pages 1 and 2 scraped, the fetch of page 3 failed
\* with a transport error, and the rows of pages 1 and 2 were returned
C8_Witness ==
    /\ ~use_selenium /\ pc = "done"
    /\ fetchLog = <<1, 2, 3>> /\ site[3].status = "err"
    /\ rows = RowsPage1 \o RowsPage2

\* C9 as stated: when the fetch of the start page returns a non-success
\* status or fails with a transport error, the crawl returns an empty
\* sequence, follows no next-link and raises nothing
C9_StartFailureYieldsEmpty ==
    (site[StartUrl].status # "ok" /\ pc \in {"done", "raised"} /\ exc # "driver_start")
        => (pc = "done" /\ rows = <<>> /\ fetchLog = <<StartUrl>>)

\* C10 as stated: outside a fetch call no rendering session is open,
\* whether the call returned or raised
C10_SessionReleased ==
    (pc \notin {"navigate", "capture"}) => sessions = 0

\* C11 as stated: with the rendering fetch strategy a failing fetch never
\* aborts the crawl: no exception leaves scrape_menu, which returns the rows
\* gathered before the failure
C11_SeleniumFailSoft ==
    use_selenium =>
        /\ pc # "raised"
        /\ (pc = "done" /\ site[fetchLog[Len(fetchLog)]].status = "err") =>
               rows = RowsOfPages(Front(fetchLog))

(* ------------------------ claims: panels, order ------------------------ *)
PendingName == Has(current_item, "name")

\* C14: at the end of a panel a pending item with a name and no price is
\* dropped; the accumulator never holds a price, so the flush after the loop
\* adds nothing: the rows appended are those of the items emitted at price
\* lines, at most one per price line
C14_EndFlushEmitsNothing ==
    /\ [](~Has(current_item, "price"))
    /\ [](SegDone =>
            Len(items) <= Cardinality({k \in 1..Len(lines) : IsPriceLine(lines[k])}))
    /\ [][(pc = "lines" /\ i >= Len(lines))
           => /\ items' = items
              /\ rows' = rows \o PanelRows(category_name, items)
              /\ Len(rows') = Len(rows) + Len(items)]_vars

\* C14 witness: the panel ["Soup", "12 pcs"] ended with a name pending and
\* nothing was appended for it
C14_Witness ==
    /\ pc = "done" /\ lines = <<Soup, Pcs12>>
    /\ current_item = Put(Put(EmptyItem, "name", Soup), "description", <<" ">> \o Pcs12)
    /\ items = <<>> /\ rows = <<>>

HasTitle(panel) == panel.heading /\ panel.title_span

\* C15: a panel without a body appends nothing and the loop goes on to the
\* next panel; once the last panel is done the rows of every panel with a
\* body are there and the next-link is followed; the rows of a panel
\* without a heading title carry the category "Unnamed Category"
C15_BodilessPanelSkipped ==
    /\ [][(pc = "panels" /\ p <= Len(soup.panels) /\ ~soup.panels[p].body)
           => (rows' = rows /\ p' = p + 1 /\ pc' = "panels" /\ soup' = soup)]_vars
    /\ []((pc = "panels" /\ p > Len(soup.panels)) => rows = RowsOfPages(fetchLog))
    /\ [][(pc = "panels" /\ p > Len(soup.panels) /\ NextPageUrl(soup) # 0)
           => (pc' = "call" /\ url' = NextPageUrl(soup))]_vars
    /\ [][(pc = "lines" /\ i >= Len(lines) /\ ~HasTitle(soup.panels[p]))
           => \A k \in (Len(rows) + 1)..Len(rows') :
                 rows'[k][1] = <<"U","n","n","a","m","e","d"," ",
                                 "C","a","t","e","g","o","r","y">>]_vars

\* C15 witness: page 2 starts with a panel without a body; its two later
\* panels were segmented, both untitled, and its next-link was followed
C15_Witness ==
    /\ pc = "call" /\ url = 3 /\ fetchLog = <<1, 2>>
    /\ rows = RowsPage1 \o RowsPage2

\* C16: at most one browser session is open; a fetch starts only at the
\* first call or when every panel of the current page is segmented and
\* its rows appended; rows only grows at its end
C16_Sequential ==
    /\ [](sessions <= 1)
    /\ [](pc \in {"navigate", "capture"} => sessions = 1)
    /\ [][fetchLog' # fetchLog
           => /\ pc = "call"
              /\ fetchLog' = Append(fetchLog, url)
              /\ rows' = rows
              /\ rows = RowsOfPages(fetchLog)
              /\ fetchLog # <<>> => (p > Len(soup.panels) /\ SegDone)]_vars
    /\ [][IsPrefix(rows, rows')]_vars

\* C16 witness: the second fetch is in progress in the browser, after the
\* rows of the first page were appended
C16_Witness ==
    /\ pc = "navigate" /\ sessions = 1 /\ fetchLog = <<1, 2>> /\ rows = RowsPage1

PriceIndexes(ls) == {k \in 1..Len(ls) : IsPriceLine(ls[k])}
PreviousPrice(ls, k) ==
    LET before == {j \in PriceIndexes(ls) : j < k}
    IN  IF before = {} THEN 0 ELSE SetMax(before)
FragmentsBefore(ls, k) ==
    {m \in (PreviousPrice(ls, k) + 1)..(k - 1) : IsFragment(ls[m])}
Emitting(ls) == {k \in PriceIndexes(ls) : FragmentsBefore(ls, k) # {}}
NthEmitting(ls, n) ==
    CHOOSE k \in Emitting(ls) : Cardinality({j \in Emitting(ls) : j < k}) = n - 1

\* C17: a panel emits one item for each price line that has a fragment (a
\* line that is neither a price nor a noise token) between it and the
\* previous price line or the panel start, and none for the other price
\* lines; the item is named after the first such fragment
C17_OneItemPerNamedPrice ==
    SegDone =>
        /\ Len(items) = Cardinality(Emitting(lines))
        /\ \A n \in 1..Len(items) :
              items[n].name = lines[SetMin(FragmentsBefore(lines, NthEmitting(lines, n)))]

\* C17 witness: in ["le", "Soup", "40 L.E"] the noise token was passed over
\* and the one item is named "Soup"
C17_Witness ==
    /\ pc = "done" /\ lines = <<NoiseLe, Soup, Price40>>
    /\ Len(items) = 1 /\ items[1].name = Soup /\ ~Has(items[1], "description")

\* an item built from lines a..b of ls: name ls[a], price line ls[b]
BuiltFrom(item, ls, a, b) ==
    /\ item.name = ls[a]
    /\ IsPriceLine(ls[b])
    /\ item.price = PriceDigits(ls[b]) \o <<" ", "L", ".", "E">>
    /\ Get(item, "description", <<>>) = JoinDescription(ls, a + 1, b - 1)

\* C18: every panel starts with an empty accumulator; each item is built
\* from lines of the panel being segmented, and its row carries that
\* panel's category
C18_AccumulatorPerPanel ==
    /\ [][(pc = "panels" /\ pc' = "lines")
           => (current_item' = EmptyItem /\ items' = <<>> /\ i' = 0
               /\ lines' = BodyLines(soup.panels[p]))]_vars
    /\ [](\A n \in 1..Len(items) :
             \E a \in 1..Len(lines) : \E b \in (a + 1)..Len(lines) :
                 BuiltFrom(items[n], lines, a, b))
    /\ [](PendingName => \E a \in 1..i : current_item.name = lines[a])
    /\ [][(pc = "lines" /\ i >= Len(lines))
           => rows' = rows \o PanelRows(CategoryName(soup.panels[p]), items)]_vars

\* C18 witness: on page 2 the second panel ended with "Soup" pending and the
\* third began with a price; that price completed nothing, and the page
\* gave the rows (Salad, " rice", "85 L.E") and (Soup, "", "7 L.E")
C18_Witness ==
    /\ pc = "panels" /\ url = 2 /\ p = 4
    /\ lines = <<Price40, Soup, Price7>>
    /\ rows = RowsPage1 \o RowsPage2

(* ---------------------------- claims: main ---------------------------- *)
Ind(b) == IF b THEN 1 ELSE 0
Weighted(robots_found, delays, maps, heavy) ==
    25 * Ind(robots_found) + 15 * Ind(delays # <<>>) + 30 * Ind(maps # <<>>)
        + 30 * Ind(~heavy)
Scored == mpc = "end"

\* C12: the score is 25*[has_robots] + 15*[crawl_delays non-empty]
\* + 30*[sitemaps non-empty] + 30*[not js_heavy]; it lies in 0..100, is 100
\* only when all four apply and 0 only when none does, and making one input
\* favourable with the others fixed never lowers it
C12_ScoreAdditive ==
    Scored =>
        /\ score = Weighted(has_robots, crawl_delays, sitemaps, js_heavy)
        /\ score \in 0..100
        /\ (score = 100) <=>
              (has_robots /\ crawl_delays # <<>> /\ sitemaps # <<>> /\ ~js_heavy)
        /\ (score = 0) <=>
              (~has_robots /\ crawl_delays = <<>> /\ sitemaps = <<>> /\ js_heavy)
        /\ calculate_crawlability_score(TRUE, crawl_delays, sitemaps, js_heavy) >= score
        /\ calculate_crawlability_score(has_robots, crawl_delays, sitemaps, FALSE) >= score
        /\ \A v \in FactValues :
              /\ calculate_crawlability_score(has_robots, Append(crawl_delays, v),
                                              sitemaps, js_heavy) >= score
              /\ calculate_crawlability_score(has_robots, crawl_delays,
                                              Append(sitemaps, v), js_heavy) >= score

\* C12 witness: no robots.txt, one crawl delay, no sitemap, not JS-heavy
\* scored 45
C12_Witness ==
    /\ Scored /\ ~has_robots /\ crawl_delays = << <<"s">> >> /\ sitemaps = <<>>
    /\ ~js_heavy /\ score = 45

JsChecked == mpc = "scrape" /\ pc = "call" /\ fetchLog = <<>>

\* C13: a page is JavaScript-heavy exactly when it has more than 10 script
\* elements or none of div, p, span, table; 10 scripts with a content
\* element is not heavy, 11 scripts is heavy whatever the content
C13_JsHeavyIff ==
    JsChecked =>
        /\ js_heavy <=> (markup.scripts > 10
                           \/ ~\E t \in {"div", "p", "span", "table"} : t \in markup.tags)
        /\ (markup.scripts = 10 /\ markup.tags \cap {"div", "p", "span", "table"} # {})
              => ~js_heavy
        /\ markup.scripts = 11 => js_heavy

\* C13 witness: exactly 10 scripts and a single <span> were judged not heavy
C13_Witness ==
    JsChecked /\ markup.scripts = 10 /\ markup.tags = {"span"} /\ ~js_heavy

ScoresWithRobots ==
    {25 + d + m + j : d \in {0, 15}, m \in {0, 30}, j \in {0, 30}}

\* C19: in a run of main the crawl delays and the sitemaps are non-empty
\* only when has_robots is true; when the request for robots.txt raised or
\* answered another status than 200 the facts are (false, none, none) and
\* the score is 0 on a JavaScript-heavy page and 30 otherwise; every
\* score without the robots contribution is 0 or 30
C19_FactsNeedRobots ==
    /\ (crawl_delays # <<>> \/ sitemaps # <<>>) => has_robots
    /\ (mpc # "robots" /\ robots.outcome # "ok")
         => (~has_robots /\ crawl_delays = <<>> /\ sitemaps = <<>>)
    /\ (mpc = "end" /\ robots.outcome # "ok") => score = (IF js_heavy THEN 0 ELSE 30)
    /\ (mpc = "end" /\ ~has_robots) => score \in {0, 30}
    /\ mpc = "end" => score \in {0, 30} \cup ScoresWithRobots

\* C19 witness: robots.txt answered another status than 200, the page is
\* not JavaScript-heavy, both pages were scraped and the score is 30
C19_Witness ==
    /\ mpc = "end" /\ robots.outcome = "status" /\ ~js_heavy
    /\ rows = RowsPage1 \o RowsPage2
    /\ score = 30

====
